---- MODULE Spec2Model ----
(***************************************************************************)
(* A model of ruby/play-ruby: the source splitter (src/src/split-file.ts), *)
(* the in-memory filesystem WASIFs and the execution harness RubyWorker    *)
(* (src/src/ruby.worker.ts), and the part of runCode (src/src/index.ts)    *)
(* that builds the request handed to the worker.                           *)
(*                                                                         *)
(* Five specifications share the definitions:                             *)
(*   SpecSplit  splitFile run line by line on a bounded set of editor      *)
(*              buffers, followed by runCode's construction of codeMap;    *)
(*   SpecFs     the WASIFs API on a filesystem a and its shallow clone b;  *)
(*   SpecCreate RubyWorker.create installing an archive and compiling the  *)
(*              interpreter;                                               *)
(*   Spec       a Ready RubyWorker serving run calls, which interleave at  *)
(*              the one await of RubyWorker.run;                           *)
(*   SpecUi     the page calling runCode, its output writers, and the      *)
(*              messages that carry a run's output and its completion.     *)
(***************************************************************************)
EXTENDS Naturals, Sequences, FiniteSets

VARIABLES
    \* splitFile (split-file.ts) and runCode (index.ts)
    content, lines, idx, currentFile, currentSourceLine, currentContent,
    remaining, files, codeMap, spc,
    \* the object heap and the root maps of the WASIFs instances
    heap, roots,
    \* Spec: the run calls of the RubyWorker
    runs,
    \* SpecCreate: RubyWorker.create and the installer it runs
    inst,
    \* SpecFs: the rootContents of a, and the number of objects there were,
    \* when a.shallowClone() was called
    cloned,
    \* SpecUi: the page (index.ts), its calls of runCode and the messages
    \* between the page and the worker
    ui

splitVars == <<content, lines, idx, currentFile, currentSourceLine,
               currentContent, remaining, files, codeMap, spc>>
fsVars == <<heap, roots>>
vars == <<splitVars, fsVars, runs, inst, cloned, ui>>

(***************************************************************************)
(* Bounds of the model.                                                    *)
(***************************************************************************)
\* the editor buffer has at most MaxLines lines
MaxLines == 4

(***************************************************************************)
(* Strings are sequences of one-character strings.                         *)
(***************************************************************************)
NL == "\n"
LineTerminators == {"\n", "\r"}

RECURSIVE Flatten(_)
\* the concatenation of a sequence of strings
Flatten(ss) == IF ss = << >> THEN << >> ELSE Head(ss) \o Flatten(Tail(ss))

RECURSIVE Repeat(_, _)
\* String.prototype.repeat
Repeat(s, n) == IF n = 0 THEN << >> ELSE s \o Repeat(s, n - 1)

RECURSIVE SplitNL(_)
\* String.prototype.split("\n"): the pieces between the newlines; one piece,
\* the whole string, when there is none
SplitNL(s) ==
    IF \A k \in 1..Len(s) : s[k] # NL
    THEN <<s>>
    ELSE LET k == CHOOSE j \in 1..Len(s) :
                      s[j] = NL /\ \A m \in 1..(j - 1) : s[m] # NL
         IN <<SubSeq(s, 1, k - 1)>> \o SplitNL(SubSeq(s, k + 1, Len(s)))

\* currentFile === null; a matched filename is never empty
Null == << >>

\* where RubyWorker.create is not part of the specification
NoInstall == << >>
\* shallowClone has not been called on a
NotCloned == [root |-> << >>, size |-> 0]
\* no page
NoUi == << >>

MarkerPrefix == <<"#", "-", "-", "-", " ">>

\* line.match(/^#--- (.+)$/): the captured filename, or Null without a match.
\* There is no m flag, so $ is the end of the line, and . matches anything but
\* a line terminator.
MatchMarker(line) ==
    IF /\ Len(line) > Len(MarkerPrefix)
       /\ SubSeq(line, 1, Len(MarkerPrefix)) = MarkerPrefix
       /\ \A k \in (Len(MarkerPrefix) + 1)..Len(line) : line[k] \notin LineTerminators
    THEN SubSeq(line, Len(MarkerPrefix) + 1, Len(line))
    ELSE Null

\* a mutant of SetFile: an entry already there is kept (first write wins)
SetFileKeepFirst(fs, name, entry) ==
    [f \in DOMAIN fs \cup {name} |-> IF f \in DOMAIN fs THEN fs[f] ELSE entry]

\* files[name] = entry
SetFile(fs, name, entry) ==
    [f \in DOMAIN fs \cup {name} |-> IF f = name THEN entry ELSE fs[f]]

(***************************************************************************)
(* The editor buffers: up to MaxLines of these lines, joined by newlines.  *)
(***************************************************************************)
MainFile == <<"m">>

EditorLines ==
    { << >>,                                   \* an empty line
      <<"a">>,                                 \* a line of code
      MarkerPrefix \o <<"x">>,                 \* "#--- x"
      MarkerPrefix \o MainFile,                \* a section named like the main file
      MarkerPrefix,                            \* "#--- " names no file
      <<" ">> \o MarkerPrefix \o <<"x">>,      \* the marker is not at the line's start
      MarkerPrefix \o <<"x", "\r">> }          \* a carriage return ends the match

RECURSIVE JoinNL(_)
JoinNL(ls) ==
    IF Len(ls) = 1 THEN ls[1] ELSE ls[1] \o <<NL>> \o JoinNL(Tail(ls))

EditorBuffers ==
    { JoinNL(ls) : ls \in UNION { [1..n -> EditorLines] : n \in 1..MaxLines } }

(***************************************************************************)
(* splitFile, one action per step of its code.                             *)
(***************************************************************************)
\* split-file.ts:14-20
SplitBegin ==
    /\ spc = "init"
    /\ files' = << >>
    /\ lines' = SplitNL(content)
    /\ currentFile' = Null
    /\ currentSourceLine' = 0
    /\ currentContent' = << >>
    /\ remaining' = << >>
    /\ idx' = 0
    /\ spc' = "loop"
    /\ UNCHANGED <<content, codeMap, fsVars, runs, inst, cloned, ui>>

\* a mutant of Flush: remaining is never assigned
FlushNoRemaining(cf, fs, rem, cc, csl) ==
    IF cf = Null
    THEN [files |-> fs, remaining |-> rem]
    ELSE [files |-> SetFile(fs, cf, [content |-> cc, sourceLine |-> csl]),
          remaining |-> rem]

\* a mutant of Flush: the section is recorded at the line after its marker
FlushNextLine(cf, fs, rem, cc, csl) ==
    IF cf = Null
    THEN [files |-> fs, remaining |-> cc]
    ELSE [files |-> SetFile(fs, cf, [content |-> cc, sourceLine |-> csl + 1]),
          remaining |-> rem]

\* a mutant of Flush: remaining is assigned at every marker
FlushAlwaysRemaining(cf, fs, rem, cc, csl) ==
    IF cf = Null
    THEN [files |-> fs, remaining |-> cc]
    ELSE [files |-> SetFile(fs, cf, [content |-> cc, sourceLine |-> csl]),
          remaining |-> cc]

\* what a marker line does to (files, remaining): split-file.ts:25-29 and 38-42
Flush(cf, fs, rem, cc, csl) ==
    IF cf = Null
    THEN [files |-> fs, remaining |-> cc]
    ELSE [files |-> SetFile(fs, cf, [content |-> cc, sourceLine |-> csl]),
          remaining |-> rem]

\* split-file.ts:22-36, one iteration; idx is the loop's i
SplitLine ==
    /\ spc = "loop"
    /\ idx < Len(lines)
    /\ LET line == lines[idx + 1]
           match == MatchMarker(line)
       IN IF match # Null
          THEN LET fl == Flush(currentFile, files, remaining, currentContent,
                               currentSourceLine)
               IN /\ files' = fl.files
                  /\ remaining' = fl.remaining
                  /\ currentFile' = match
                  /\ currentSourceLine' = idx
                  /\ currentContent' = << >>
          ELSE /\ currentContent' = currentContent \o line \o <<NL>>
               /\ UNCHANGED <<files, remaining, currentFile, currentSourceLine>>
    /\ idx' = idx + 1
    /\ UNCHANGED <<content, lines, codeMap, spc, fsVars, runs, inst, cloned, ui>>

\* split-file.ts:38-44
SplitEnd ==
    /\ spc = "loop"
    /\ idx = Len(lines)
    /\ LET fl == Flush(currentFile, files, remaining, currentContent,
                       currentSourceLine)
       IN /\ files' = fl.files
          /\ remaining' = fl.remaining
    /\ spc' = "done"
    /\ UNCHANGED <<content, lines, idx, currentFile, currentSourceLine,
                   currentContent, codeMap, fsVars, runs, inst, cloned, ui>>

\* a mutant of PrependLines: sourceLine newlines, one too few
PrependLinesOneLess(file) == Repeat(<<NL>>, file.sourceLine) \o file.content

\* index.ts:678: "\n".repeat(file.sourceLine + 1) + file.content
PrependLines(file) == Repeat(<<NL>>, file.sourceLine + 1) \o file.content

\* index.ts:673-679: codeMap = { [mainFile]: remaining }, then every section,
\* with sourceLine + 1 newlines before its content, assigned under its name
BuildCodeMap ==
    /\ spc = "done"
    /\ codeMap' = [f \in {MainFile} \cup DOMAIN files |->
                     IF f \in DOMAIN files
                     THEN PrependLines(files[f])
                     ELSE remaining]
    /\ spc' = "mapped"
    /\ UNCHANGED <<content, lines, idx, currentFile, currentSourceLine,
                   currentContent, remaining, files, fsVars, runs, inst, cloned, ui>>

InitSplit ==
    /\ content \in EditorBuffers
    /\ lines = << >>
    /\ idx = 0
    /\ currentFile = Null
    /\ currentSourceLine = 0
    /\ currentContent = << >>
    /\ remaining = << >>
    /\ files = << >>
    /\ codeMap = << >>
    /\ spc = "init"
    /\ heap = << >>
    /\ roots = << >>
    /\ runs = << >>
    /\ inst = NoInstall
    /\ cloned = NotCloned
    /\ ui = NoUi

NextSplit == SplitBegin \/ SplitLine \/ SplitEnd \/ BuildCodeMap

SpecSplit == InitSplit /\ [][NextSplit]_vars

(***************************************************************************)
(* WASIFs. Every Directory and File object is an entry of heap, named by   *)
(* its index; a Map is a function from names to such indices. roots[k] is  *)
(* the rootContents of the WASIFs instance k. The operations take and      *)
(* return a world [heap, roots], so that a caller can run several of them  *)
(* in one step.                                                            *)
(***************************************************************************)
\* no error was thrown
None == "none"
ENOTDIR == "ENOTDIR: not a directory"
ENOENT == "ENOENT: no such file or directory"
EEXIST == "EEXIST: file already exists"
NullEntry == "TypeError: Cannot set properties of null (setting 'data')"
\* the value undefined: parts[-1] of an empty path, the data of a Directory
Undefined == "undefined"
\* new File([]).data
EmptyData == ""

World == [heap |-> heap, roots |-> roots]

EmptyMap == << >>
\* new Directory(new Map())
NewDirectory == [kind |-> "dir", contents |-> EmptyMap, data |-> Undefined]
\* new File([])
NewFile == [kind |-> "file", contents |-> EmptyMap, data |-> EmptyData]

\* Map.prototype.set
MapSet(m, name, id) ==
    [n \in DOMAIN m \cup {name} |-> IF n = name THEN id ELSE m[n]]

\* an IDir: the root of the WASIFs instance k (_getRoot), or a Directory
RootDir(k) == [root |-> TRUE, at |-> k]
HeapDir(id) == [root |-> FALSE, at |-> id]

\* dir.contents
Contents(w, d) == IF d.root THEN w.roots[d.at] ELSE w.heap[d.at].contents

\* the entry null
NoEntry == 0

\* contents.set(name, new Directory(new Map())), or new File([]), in dir
SetNewEntry(w, d, name, is_dir) ==
    LET id == Len(w.heap) + 1
        h1 == Append(w.heap, IF is_dir THEN NewDirectory ELSE NewFile)
    IN [w |-> IF d.root
              THEN [heap |-> h1,
                    roots |-> [w.roots EXCEPT ![d.at] = MapSet(@, name, id)]]
              ELSE [heap |-> [h1 EXCEPT ![d.at].contents = MapSet(@, name, id)],
                    roots |-> w.roots],
        entry |-> id]

\* a mutant of CreateEntryForPath: the root's entry is set in the Map shared by
\* every instance (every root Map of the world)
CreateEntryInEveryRoot(w, d, name, is_dir) ==
    LET id == Len(w.heap) + 1
        h1 == Append(w.heap, IF is_dir THEN NewDirectory ELSE NewFile)
    IN IF d.root
       THEN [w |-> [heap |-> h1,
                    roots |-> [k \in DOMAIN w.roots |-> MapSet(w.roots[k], name, id)]],
             entry |-> id]
       ELSE IF name \in DOMAIN w.heap[d.at].contents
            THEN [w |-> w, entry |-> NoEntry]
            ELSE [w |-> [heap |-> [h1 EXCEPT ![d.at].contents = MapSet(@, name, id)],
                         roots |-> w.roots],
                  entry |-> id]

\* dir.create_entry_for_path(name, is_dir). For the root (ruby.worker.ts:35-45)
\* a new, empty Directory or File is set under name in rootContents, whatever
\* was there. A Directory of the WASI shim creates the entry in its contents
\* when the name is not there; when it is, it leaves it and returns the entry
\* null (with ERRNO_EXIST, which no caller here reads).
CreateEntryForPath(w, d, name, is_dir) ==
    IF d.root \/ name \notin DOMAIN w.heap[d.at].contents
    THEN SetNewEntry(w, d, name, is_dir)
    ELSE [w |-> w, entry |-> NoEntry]

RECURSIVE WalkDirectoriesCopying(_, _, _)
\* a mutant of WalkDirectories: a Directory on the way is not entered but
\* replaced by a new one
WalkDirectoriesCopying(w, d, path) ==
    IF path = << >>
    THEN [w |-> w, dir |-> d, err |-> None]
    ELSE LET part == Head(path)
             c == Contents(w, d)
         IN IF part \notin DOMAIN c \/ w.heap[c[part]].kind = "dir"
            THEN LET made == SetNewEntry(w, d, part, TRUE)
                 IN WalkDirectoriesCopying(made.w, HeapDir(made.entry), Tail(path))
            ELSE [w |-> w, dir |-> d, err |-> ENOTDIR]

RECURSIVE WalkDirectories(_, _, _)
\* the loop of _getDirectoryAtPath, from the directory d
WalkDirectories(w, d, path) ==
    IF path = << >>
    THEN [w |-> w, dir |-> d, err |-> None]
    ELSE LET part == Head(path)
             c == Contents(w, d)
         IN IF part \notin DOMAIN c
            THEN LET made == CreateEntryForPath(w, d, part, TRUE)
                 IN WalkDirectories(made.w, HeapDir(made.entry), Tail(path))
            ELSE IF w.heap[c[part]].kind = "dir"
                 THEN WalkDirectories(w, HeapDir(c[part]), Tail(path))
                 ELSE [w |-> w, dir |-> d, err |-> ENOTDIR]

\* _getDirectoryAtPath
GetDirectoryAtPath(w, k, path) == WalkDirectories(w, RootDir(k), path)

KeepPart(part) == part # "" /\ part # "."
\* _splitPath: a path is given as its pieces between the slashes
SplitPath(path) == SelectSeq(path, KeepPart)

\* parts.slice(0, parts.length - 1)
Parents(parts) == IF parts = << >> THEN << >> ELSE SubSeq(parts, 1, Len(parts) - 1)
\* parts[parts.length - 1]
LastPart(parts) == IF parts = << >> THEN Undefined ELSE parts[Len(parts)]

\* a mutant of ShallowClone: the new WASIFs is left empty
ShallowCloneEmpty(w, k, new) ==
    [heap |-> w.heap,
     roots |-> [j \in DOMAIN w.roots \cup {new} |->
                  IF j = new THEN EmptyMap ELSE w.roots[j]]]

\* shallowClone: a new WASIFs, new, whose rootContents is a copy of the Map
ShallowClone(w, k, new) ==
    [heap |-> w.heap,
     roots |-> [j \in DOMAIN w.roots \cup {new} |->
                  IF j = new THEN w.roots[k] ELSE w.roots[j]]]

RECURSIVE MkdirWalkReplacing(_, _, _, _)
\* a mutant of MkdirWalk: with recursive, a Directory that exists is replaced
\* by a new, empty one
MkdirWalkReplacing(w, d, parts, recursive) ==
    IF parts = << >>
    THEN [w |-> w, err |-> None]
    ELSE LET part == Head(parts)
             c == Contents(w, d)
         IN IF part \notin DOMAIN c /\ ~recursive
            THEN [w |-> w, err |-> ENOENT]
            ELSE IF part \notin DOMAIN c \/ (w.heap[c[part]].kind = "dir" /\ recursive)
                 THEN LET made == SetNewEntry(w, d, part, TRUE)
                      IN MkdirWalkReplacing(made.w, HeapDir(made.entry), Tail(parts),
                                            recursive)
                 ELSE IF w.heap[c[part]].kind = "dir"
                      THEN MkdirWalkReplacing(w, HeapDir(c[part]), Tail(parts), recursive)
                      ELSE [w |-> w, err |-> EEXIST]

RECURSIVE MkdirWalk(_, _, _, _)
\* the loop of mkdirSync, from the directory d
MkdirWalk(w, d, parts, recursive) ==
    IF parts = << >>
    THEN [w |-> w, err |-> None]
    ELSE LET part == Head(parts)
             c == Contents(w, d)
         IN IF part \notin DOMAIN c
            THEN IF recursive
                 THEN LET made == CreateEntryForPath(w, d, part, TRUE)
                      IN MkdirWalk(made.w, HeapDir(made.entry), Tail(parts), recursive)
                 ELSE [w |-> w, err |-> ENOENT]
            ELSE IF w.heap[c[part]].kind = "dir"
                 THEN MkdirWalk(w, HeapDir(c[part]), Tail(parts), recursive)
                 ELSE [w |-> w, err |-> EEXIST]

\* mkdirSync(path, {recursive})
MkdirSync(w, k, path, recursive) ==
    MkdirWalk(w, RootDir(k), SplitPath(path), recursive)

\* writeFileSync(path, data); createdFile.data = data throws a TypeError
\* when the entry is null
WriteFileSync(w, k, path, data) ==
    LET parts == SplitPath(path)
        at == GetDirectoryAtPath(w, k, Parents(parts))
    IN IF at.err # None
       THEN [w |-> at.w, err |-> at.err]
       ELSE LET made == CreateEntryForPath(at.w, at.dir, LastPart(parts), FALSE)
            IN IF made.entry = NoEntry
               THEN [w |-> made.w, err |-> NullEntry]
               ELSE [w |-> [made.w EXCEPT !.heap[made.entry].data = data],
                     err |-> None]

\* a mutant of ReadFileSync: no check that the Map has the last name
ReadFileSyncUnchecked(w, k, path) ==
    LET parts == SplitPath(path)
        at == GetDirectoryAtPath(w, k, Parents(parts))
    IN IF at.err # None
       THEN [w |-> at.w, err |-> at.err, ret |-> Undefined]
       ELSE LET c == Contents(at.w, at.dir)
            IN [w |-> at.w, err |-> None,
                ret |-> IF LastPart(parts) \in DOMAIN c
                        THEN at.w.heap[c[LastPart(parts)]].data
                        ELSE Undefined]

\* readFileSync(path): ret is file.data
ReadFileSync(w, k, path) ==
    LET parts == SplitPath(path)
        at == GetDirectoryAtPath(w, k, Parents(parts))
    IN IF at.err # None
       THEN [w |-> at.w, err |-> at.err, ret |-> Undefined]
       ELSE LET c == Contents(at.w, at.dir)
            IN IF LastPart(parts) \notin DOMAIN c
               THEN [w |-> at.w, err |-> ENOENT, ret |-> Undefined]
               ELSE [w |-> at.w, err |-> None,
                     ret |-> at.w.heap[c[LastPart(parts)]].data]

(***************************************************************************)
(* SpecFs: a WASIFs a, used through its API, and its shallow clone b.      *)
(***************************************************************************)
\* no more than MaxInodes objects are ever allocated
MaxInodes == 3

FsA == 0
FsB == 1
FsNames == {"d", "f"}
\* the paths given to the API: every path of one or two names, and one with
\* pieces that _splitPath drops ("/d/./f")
FsPaths ==
    { <<n>> : n \in FsNames } \cup { <<n, m>> : n, m \in FsNames }
        \cup { <<"", "d", ".", "f">> }
FsData == {"p", "q"}

InitFs ==
    /\ heap = << >>
    /\ roots = [k \in {FsA} |-> EmptyMap]
    /\ runs = << >>
    /\ inst = NoInstall
    /\ cloned = NotCloned
    /\ ui = NoUi
    /\ content = << >>
    /\ lines = << >>
    /\ idx = 0
    /\ currentFile = Null
    /\ currentSourceLine = 0
    /\ currentContent = << >>
    /\ remaining = << >>
    /\ files = << >>
    /\ codeMap = << >>
    /\ spc = "unused"

\* a call of the API took the world to w
FsStep(w) ==
    /\ Len(w.heap) <= MaxInodes
    /\ heap' = w.heap
    /\ roots' = w.roots
    /\ UNCHANGED <<splitVars, runs, inst>>

FsMkdir ==
    \E k \in DOMAIN roots, path \in FsPaths, recursive \in BOOLEAN :
        FsStep(MkdirSync(World, k, path, recursive).w) /\ UNCHANGED <<cloned, ui>>

FsWriteFile ==
    \E k \in DOMAIN roots, path \in FsPaths, data \in FsData :
        FsStep(WriteFileSync(World, k, path, data).w) /\ UNCHANGED <<cloned, ui>>

FsReadFile ==
    \E k \in DOMAIN roots, path \in FsPaths :
        FsStep(ReadFileSync(World, k, path).w) /\ UNCHANGED <<cloned, ui>>

FsClone ==
    /\ FsB \notin DOMAIN roots
    /\ FsStep(ShallowClone(World, FsA, FsB))
    /\ cloned' = [root |-> roots[FsA], size |-> Len(heap)]
    /\ UNCHANGED ui

NextFs == FsMkdir \/ FsWriteFile \/ FsReadFile \/ FsClone

SpecFs == InitFs /\ [][NextFs]_vars

(***************************************************************************)
(* RubyWorker. The WASIFs instance 0 is this.fs, the base installation;    *)
(* the instance r >= 1 is the codeFs of the r-th run call. runs[r] is the  *)
(* r-th call of run:                                                       *)
(*   request   the arguments code, mainScriptPath, action, extraArgs       *)
(*   pc        "instantiating" at the await of WebAssembly.instantiate,    *)
(*             "started" inside wasi.start, "resolved" or "rejected" once  *)
(*             the promise is settled                                      *)
(*   merged    how many files of code writeFileSync has written            *)
(*   argv      the arguments given to WASI                                 *)
(*   program   what the interpreter does in this run, and pos, how many of *)
(*             its operations it has done                                  *)
(*   seen      what the program's reads of files found, in order           *)
(*   out       the messages passed to log, in order                        *)
(*   thrown    the error run threw (None when it threw nothing)            *)
(*   failedBefore  the calls that had been rejected when this one was made *)
(***************************************************************************)
\* at most MaxRuns calls of run
MaxRuns == 2

BaseFs == 0

\* TextEncoder.encode and TextDecoder.decode (UTF-8) on the characters used;
\* a byte sequence that is no complete character decodes to U+FFFD
Replacement == "U+FFFD"
EncodeChar(c) ==
    CASE c = "e'" -> <<195, 169>>
      [] c = "a" -> <<97>>
      [] c = "b" -> <<98>>
      [] OTHER -> <<63>>

RECURSIVE Encode(_)
Encode(text) ==
    IF text = << >> THEN << >> ELSE EncodeChar(Head(text)) \o Encode(Tail(text))

RECURSIVE Decode(_)
Decode(bytes) ==
    IF bytes = << >> THEN << >>
    ELSE IF Head(bytes) = 97 THEN <<"a">> \o Decode(Tail(bytes))
    ELSE IF Head(bytes) = 98 THEN <<"b">> \o Decode(Tail(bytes))
    ELSE IF Head(bytes) = 63 THEN <<"?">> \o Decode(Tail(bytes))
    ELSE IF Head(bytes) = 195 /\ Len(bytes) >= 2 /\ bytes[2] = 169
         THEN <<"e'">> \o Decode(Tail(Tail(bytes)))
    ELSE <<Replacement>> \o Decode(Tail(bytes))

\* the installation: what installTar leaves in this.fs for an archive with
\* the directory usr/local/bin, the interpreter in it, and a top-level file
BaseWorld ==
    LET w0 == [heap |-> << >>, roots |-> [k \in {BaseFs} |-> EmptyMap]]
        w1 == MkdirSync(w0, BaseFs, <<"usr", "local", "bin">>, TRUE).w
        w2 == WriteFileSync(w1, BaseFs, <<"usr", "local", "bin", "ruby">>, <<0>>).w
    IN WriteFileSync(w2, BaseFs, <<"README">>, Encode(<<"b">>)).w

\* a mutant of ValidAction: the switch has no default
AnyActionValid(action) == TRUE

\* ruby.worker.ts:207-213: the cases of the switch
ValidAction(action) == action \in {"eval", "compile", "syntax", "syntax+prism"}

\* ruby.worker.ts:208-211: what the case pushes to extraArgs
ActionFlags(action) ==
    CASE action = "compile" -> <<"--dump=insns">>
      [] action = "syntax" -> <<"--dump=parsetree">>
      [] action = "syntax+prism" -> <<"--dump=prism_parsetree">>
      [] OTHER -> << >>

UnknownAction == "Unknown action"
\* the exception wasi.start throws when the program faults
SandboxFault == "RuntimeError: unreachable"

\* the requests made of the worker: a file in a directory of the
\* installation; top-level files and a file in a new directory; a file below
\* a top-level file of the installation (ENOTDIR) after one in a directory of
\* the installation; a top-level file of the installation replaced; and an
\* action that run does not know
MainScriptPath == "main.rb"
MainScript == <<MainScriptPath>>
Requests ==
    { [code |-> <<[path |-> MainScript, text |-> <<"a">>],
                  [path |-> <<"usr", "a.rb">>, text |-> <<"e'">>]>>,
       action |-> "compile"],
      [code |-> <<[path |-> MainScript, text |-> <<"b">>],
                  [path |-> <<"lib.rb">>, text |-> <<"b">>],
                  [path |-> <<"new", "a.rb">>, text |-> <<"a">>]>>,
       action |-> "syntax"],
      [code |-> <<[path |-> MainScript, text |-> <<"a">>],
                  [path |-> <<"usr", "b.rb">>, text |-> <<"b">>],
                  [path |-> <<"README", "a.rb">>, text |-> <<"a">>]>>,
       action |-> "syntax+prism"],
      [code |-> <<[path |-> MainScript, text |-> <<"a">>],
                  [path |-> <<"README">>, text |-> <<"a">>]>>,
       action |-> "eval"],
      [code |-> <<[path |-> MainScript, text |-> <<"a">>],
                  [path |-> <<"usr", "a.rb">>, text |-> <<"a">>]>>,
       action |-> "run"] }
ExtraArgs == { << >> }

\* what the interpreter does in a run: writes to file descriptors, files
\* written through the preopened root, and files read through it and copied
\* to fd 1 ("cat")
Programs ==
    { <<[op |-> "fd_write", fd |-> 1, iovs |-> <<<<97>>, <<98>>>>],
        [op |-> "fd_write", fd |-> 2, iovs |-> <<<<195, 169>>>>]>>,
      <<[op |-> "cat", path |-> <<"usr", "p.rb">>],
        [op |-> "write", path |-> <<"usr", "p.rb">>, data |-> <<97>>]>>,
      <<[op |-> "cat", path |-> <<"t.rb">>],
        [op |-> "write", path |-> <<"t.rb">>, data |-> <<98>>],
        [op |-> "fd_write", fd |-> 4, iovs |-> <<<<97>>>>],
        [op |-> "fd_write", fd |-> 1, iovs |-> <<<<195>>, <<169>>>>]>> }

RECURSIVE MergeIntoBase(_, _, _, _)
\* a mutant of MergeFiles: the files are written to this.fs, not to the clone
MergeIntoBase(w, k, code, n) ==
    IF n > Len(code)
    THEN [w |-> w, err |-> None, merged |-> Len(code)]
    ELSE LET r == WriteFileSync(w, BaseFs, code[n].path, Encode(code[n].text))
         IN IF r.err # None
            THEN [w |-> r.w, err |-> r.err, merged |-> n - 1]
            ELSE MergeIntoBase(r.w, k, code, n + 1)

RECURSIVE MergeFiles(_, _, _, _)
\* ruby.worker.ts:218-220: writeFileSync for the files of code from the n-th
\* on, until one throws
MergeFiles(w, k, code, n) ==
    IF n > Len(code)
    THEN [w |-> w, err |-> None, merged |-> Len(code)]
    ELSE LET r == WriteFileSync(w, k, code[n].path, Encode(code[n].text))
         IN IF r.err # None
            THEN [w |-> r.w, err |-> r.err, merged |-> n - 1]
            ELSE MergeFiles(r.w, k, code, n + 1)

\* wasi.start runs the program to its end without a suspension point: while
\* a run is inside it, nothing else happens in the worker
NoneStarted == \A r \in 1..Len(runs) : runs[r].pc # "started"

NewRun(request, extraArgs) ==
    [request |-> request, pc |-> "rejected", merged |-> 0, argv |-> << >>,
     program |-> << >>, pos |-> 0, seen |-> << >>, out |-> << >>,
     thrown |-> UnknownAction,
     failedBefore |-> { r \in 1..Len(runs) : runs[r].pc = "rejected" }]

\* ruby.worker.ts:206-243: run, up to its await
RunCall ==
    \E request \in Requests, extraArgs \in ExtraArgs :
        /\ Len(runs) < MaxRuns
        /\ NoneStarted
        /\ LET r == Len(runs) + 1
               new == NewRun(request, extraArgs)
           IN IF ~ValidAction(request.action)
              THEN /\ runs' = Append(runs, new)
                   /\ UNCHANGED fsVars
              ELSE LET codeFs == ShallowClone(World, BaseFs, r)
                       m == MergeFiles(codeFs, r, request.code, 1)
                   IN /\ heap' = m.w.heap
                      /\ roots' = m.w.roots
                      /\ runs' = Append(runs,
                            IF m.err # None
                            THEN [new EXCEPT !.merged = m.merged, !.thrown = m.err]
                            ELSE [new EXCEPT
                                    !.pc = "instantiating",
                                    !.merged = m.merged,
                                    !.thrown = None,
                                    !.argv = <<"ruby">> \o extraArgs
                                               \o ActionFlags(request.action)
                                               \o <<MainScriptPath>>])
        /\ UNCHANGED <<splitVars, inst, cloned, ui>>

\* ruby.worker.ts:243-246: the instance is there, wasi.start begins
RunStart ==
    \E r \in 1..Len(runs), program \in Programs :
        /\ runs[r].pc = "instantiating"
        /\ NoneStarted
        /\ runs' = [runs EXCEPT ![r].pc = "started", ![r].program = program]
        /\ UNCHANGED <<splitVars, fsVars, inst, cloned, ui>>

\* ruby.worker.ts:159-171: every buffer of the write decoded on its own
RECURSIVE DecodeBuffers(_)
DecodeBuffers(iovs) ==
    IF iovs = << >> THEN << >> ELSE Decode(Head(iovs)) \o DecodeBuffers(Tail(iovs))

RECURSIVE Lookup(_, _, _)
\* the inode at the path parts below the Map m; 0 when there is none
Lookup(w, m, parts) ==
    IF Head(parts) \notin DOMAIN m
    THEN 0
    ELSE IF Len(parts) = 1
         THEN m[Head(parts)]
         ELSE IF w.heap[m[Head(parts)]].kind = "dir"
              THEN Lookup(w, w.heap[m[Head(parts)]].contents, Tail(parts))
              ELSE 0

\* the program opens parts for writing, creating it if need be, through the
\* preopened root of the codeFs k, and writes data: an existing File keeps
\* its identity and gets the data; a new one is created in its directory
\* when that exists
ProgramWrite(w, k, parts, data) ==
    LET at == Lookup(w, w.roots[k], parts)
        parent == IF Len(parts) = 1 THEN 0
                  ELSE Lookup(w, w.roots[k], Parents(parts))
    IN IF at # 0
       THEN IF w.heap[at].kind = "file"
            THEN [w EXCEPT !.heap[at].data = data]
            ELSE w
       ELSE IF Len(parts) = 1
            THEN LET made == CreateEntryForPath(w, RootDir(k), LastPart(parts), FALSE)
                 IN [made.w EXCEPT !.heap[made.entry].data = data]
            ELSE IF parent # 0 /\ w.heap[parent].kind = "dir"
                 THEN LET made == CreateEntryForPath(w, HeapDir(parent),
                                                     LastPart(parts), FALSE)
                      IN [made.w EXCEPT !.heap[made.entry].data = data]
                 ELSE w

\* the program opens parts for reading through the preopened root of the
\* codeFs k and reads it whole
ProgramRead(w, k, parts) ==
    LET at == Lookup(w, w.roots[k], parts)
    IN IF at # 0 /\ w.heap[at].kind = "file"
       THEN [found |-> TRUE, data |-> w.heap[at].data]
       ELSE [found |-> FALSE, data |-> << >>]

\* ruby.worker.ts:142-177 and 240: one operation of the program inside
\* wasi.start; a write to fd 1 or 2 is passed to log before it returns
ProgramStep ==
    \E r \in 1..Len(runs) :
        /\ runs[r].pc = "started"
        /\ runs[r].pos < Len(runs[r].program)
        /\ LET o == runs[r].program[runs[r].pos + 1]
           IN IF o.op = "fd_write"
              THEN /\ runs' = [runs EXCEPT
                                 ![r].pos = @ + 1,
                                 ![r].out = IF o.fd \in {1, 2}
                                            THEN Append(@, DecodeBuffers(o.iovs))
                                            ELSE @]
                   /\ UNCHANGED fsVars
              ELSE IF o.op = "cat"
              THEN LET read == ProgramRead(World, r, o.path)
                   IN /\ runs' = [runs EXCEPT
                                    ![r].pos = @ + 1,
                                    ![r].seen = Append(@, read),
                                    ![r].out = IF read.found
                                               THEN Append(@, DecodeBuffers(<<read.data>>))
                                               ELSE @]
                      /\ UNCHANGED fsVars
              ELSE LET w == ProgramWrite(World, r, o.path, o.data)
                   IN /\ heap' = w.heap
                      /\ roots' = w.roots
                      /\ runs' = [runs EXCEPT ![r].pos = @ + 1]
        /\ UNCHANGED <<splitVars, inst, cloned, ui>>

\* ruby.worker.ts:246 and 251: wasi.start returns, run returns
ProgramExit ==
    \E r \in 1..Len(runs) :
        /\ runs[r].pc = "started"
        /\ runs[r].pos = Len(runs[r].program)
        /\ runs' = [runs EXCEPT ![r].pc = "resolved"]
        /\ UNCHANGED <<splitVars, fsVars, inst, cloned, ui>>

\* ruby.worker.ts:247-250: wasi.start throws e; log(e), then throw e
ProgramFault ==
    \E r \in 1..Len(runs) :
        /\ runs[r].pc = "started"
        /\ runs' = [runs EXCEPT ![r].out = Append(@, SandboxFault),
                                ![r].thrown = SandboxFault,
                                ![r].pc = "rejected"]
        /\ UNCHANGED <<splitVars, fsVars, inst, cloned, ui>>

\* RubyWorker.create has returned: the worker is Ready
Init ==
    /\ heap = BaseWorld.heap
    /\ roots = BaseWorld.roots
    /\ runs = << >>
    /\ inst = NoInstall
    /\ cloned = NotCloned
    /\ ui = NoUi
    /\ content = << >>
    /\ lines = << >>
    /\ idx = 0
    /\ currentFile = Null
    /\ currentSourceLine = 0
    /\ currentContent = << >>
    /\ remaining = << >>
    /\ files = << >>
    /\ codeMap = << >>
    /\ spc = "unused"

Next == RunCall \/ RunStart \/ ProgramStep \/ ProgramExit \/ ProgramFault

Spec == Init /\ [][Next]_vars

(***************************************************************************)
(* SpecCreate: RubyWorker.create with the installer it runs (installZip,   *)
(* installTarGz and installTar of ruby-install.ts) on a bounded set of     *)
(* archives. The WASIFs instance 0 is the fs that create makes. inst is:   *)
(*   archive   the zip: whether it has install.tar.gz, whether that        *)
(*             decompresses, and the entries of the tar                    *)
(*   pc        "start"; "unzip" at the await of getEntries; "untar" at the *)
(*             await of arrayBuffer; "entries" in the for await loop and   *)
(*             at the await of Promise.all; "installed" once installTar    *)
(*             has resolved; "compiling" at the await of the module;       *)
(*             "returned" or "rejected" once create has settled            *)
(*   next      how many entries the loop has taken                         *)
(*   works     for every entry, its dataWork: "none" when there is none,   *)
(*             "pending", "resolved", "rejected", or "thrown" when the     *)
(*             end listener threw and the promise never settles            *)
(*   chunks    for every entry, the chunks its data listener has pushed    *)
(*   calls     the calls made of fs, in order                              *)
(*   status    the messages passed to setStatus, in order                  *)
(*   error     what create rejected with                                   *)
(***************************************************************************)
\* a tar has at most MaxEntries entries
MaxEntries == 3

NoTarball == "No install.tar.gz!?"
DecodeError == "TypeError: failed to decode"
ReadError == "Error: entry read failed"
UnknownEntry == "Unknown entry type"
CompileError == "CompileError: invalid module"

\* the bytes WebAssembly.compile accepts
ValidModule(data) == data = <<0, 97>>

\* "/usr/local/bin/ruby", as its pieces between the slashes
RubyBinaryPath == <<"", "usr", "local", "bin", "ruby">>

\* the entries of the tars: a directory, the interpreter in two chunks, a
\* file at its path that is no module, a file whose read fails, an entry that
\* is neither file nor directory, and an empty file where a directory is
\* expected; and a second program next to the interpreter
TarEntries ==
    { [type |-> "directory", path |-> <<"usr", "local", "bin">>,
       data |-> << >>, fails |-> FALSE],
      [type |-> "file", path |-> <<"usr", "local", "bin", "ruby">>,
       data |-> <<<<0>>, <<97>>>>, fails |-> FALSE],
      [type |-> "file", path |-> <<"usr", "local", "bin", "ruby">>,
       data |-> <<<<63>>>>, fails |-> FALSE],
      [type |-> "file", path |-> <<"README">>,
       data |-> <<<<98>>>>, fails |-> TRUE],
      [type |-> "symlink", path |-> <<"usr", "local", "bin", "ruby">>,
       data |-> << >>, fails |-> FALSE],
      [type |-> "file", path |-> <<"usr">>,
       data |-> << >>, fails |-> FALSE],
      [type |-> "file", path |-> <<"usr", "local", "bin", "irb">>,
       data |-> <<<<98>>>>, fails |-> FALSE] }

Tars == UNION { [1..n -> TarEntries] : n \in 1..MaxEntries }

Archives ==
    { [tarball |-> FALSE, gzip |-> TRUE, tar |-> << >>],
      [tarball |-> TRUE, gzip |-> FALSE, tar |-> << >>] }
        \cup { [tarball |-> TRUE, gzip |-> TRUE, tar |-> t] : t \in Tars }

Tar == inst.archive.tar

\* this.setStatus(message)
SetStatus(i, message) == [i EXCEPT !.status = Append(@, message)]

\* the promise that create returned is rejected with error
Reject(i, error) == [i EXCEPT !.pc = "rejected", !.error = error]

\* a mutant of AllResolved: installTar does not wait for the dataWorks
NoneAwaited(works) == TRUE

\* ruby-install.ts:66: Promise.all(dataWorks) is fulfilled
AllResolved(works) ==
    \A i \in 1..Len(works) : works[i] \in {"none", "resolved"}

\* ruby-install.ts:66: Promise.all(dataWorks) is rejected
SomeRejected(works) == \E i \in 1..Len(works) : works[i] = "rejected"

\* ruby.worker.ts:195-198 and ruby-install.ts:13-14: create, up to the await
\* of zipReader.getEntries()
CreateCall ==
    /\ inst.pc = "start"
    /\ inst' = [SetStatus(inst, "Loading...") EXCEPT !.pc = "unzip"]
    /\ UNCHANGED <<splitVars, fsVars, runs, cloned, ui>>

\* ruby-install.ts:15-19, 22-25 and 29-33: the entry install.tar.gz is looked
\* up and piped through the decompression; installTar runs up to the await
\* of arrayBuffer()
InstallZip ==
    /\ inst.pc = "unzip"
    /\ inst' = IF ~inst.archive.tarball
               THEN Reject(inst, NoTarball)
               ELSE [SetStatus(inst, "Downloading, unzipping, and untarring...")
                        EXCEPT !.pc = "untar"]
    /\ UNCHANGED <<splitVars, fsVars, runs, cloned, ui>>

\* ruby-install.ts:33-39: the tar is there, or the decompression has failed
InstallTar ==
    /\ inst.pc = "untar"
    /\ inst' = IF ~inst.archive.gzip
               THEN Reject(inst, DecodeError)
               ELSE [SetStatus(inst, "Installing...") EXCEPT !.pc = "entries"]
    /\ UNCHANGED <<splitVars, fsVars, runs, cloned, ui>>

\* a mutant of TakeEntry: an entry that is neither file nor directory is
\* passed over
TakeEntrySkipping(taken, i, entry) ==
    IF entry.type = "file"
    THEN [taken EXCEPT !.works[i] = "pending"]
    ELSE taken

\* ruby-install.ts:45-63: the i-th entry is no directory: a file gets its
\* dataWork, anything else throws
TakeEntry(taken, i, entry) ==
    IF entry.type = "file"
    THEN [taken EXCEPT !.works[i] = "pending"]
    ELSE Reject(taken, UnknownEntry)

\* ruby-install.ts:40-65: one iteration of the for await loop
InstallEntry ==
    /\ inst.pc = "entries"
    /\ inst.next < Len(Tar)
    /\ LET i == inst.next + 1
           entry == Tar[i]
           taken == [inst EXCEPT !.next = i]
       IN IF entry.type = "directory"
          THEN LET made == MkdirSync(World, BaseFs, entry.path, TRUE)
                   called == [taken EXCEPT !.calls =
                                 Append(@, [op |-> "mkdirSync", path |-> entry.path,
                                            data |-> << >>])]
               IN /\ heap' = made.w.heap
                  /\ roots' = made.w.roots
                  /\ inst' = IF made.err # None THEN Reject(called, made.err)
                             ELSE called
          ELSE /\ inst' = TakeEntry(taken, i, entry)
               /\ UNCHANGED fsVars
    /\ UNCHANGED <<splitVars, runs, cloned, ui>>

\* ruby-install.ts:48-50: a data event of the entry i
EntryData ==
    \E i \in 1..Len(Tar) :
        /\ inst.works[i] = "pending"
        /\ Len(inst.chunks[i]) < Len(Tar[i].data)
        /\ inst' = [inst EXCEPT !.chunks[i] =
                        Append(@, Tar[i].data[Len(inst.chunks[i]) + 1])]
        /\ UNCHANGED <<splitVars, fsVars, runs, cloned, ui>>

\* ruby-install.ts:51-55: the end event of the entry i, once its data is read
EntryEnd ==
    \E i \in 1..Len(Tar) :
        /\ inst.works[i] = "pending"
        /\ ~Tar[i].fails
        /\ Len(inst.chunks[i]) = Len(Tar[i].data)
        /\ LET data == Flatten(inst.chunks[i])
               written == WriteFileSync(World, BaseFs, Tar[i].path, data)
           IN /\ heap' = written.w.heap
              /\ roots' = written.w.roots
              /\ inst' = [inst EXCEPT
                            !.calls = Append(@, [op |-> "writeFileSync",
                                                 path |-> Tar[i].path, data |-> data]),
                            !.works[i] = IF written.err # None THEN "thrown"
                                         ELSE "resolved"]
        /\ UNCHANGED <<splitVars, runs, cloned, ui>>

\* ruby-install.ts:56-58: the error event of the entry i
EntryError ==
    \E i \in 1..Len(Tar) :
        /\ inst.works[i] = "pending"
        /\ Tar[i].fails
        /\ inst' = [inst EXCEPT !.works[i] = "rejected"]
        /\ UNCHANGED <<splitVars, fsVars, runs, cloned, ui>>

\* ruby-install.ts:66-67: the loop is over and Promise.all is fulfilled
InstallTarDone ==
    /\ inst.pc = "entries"
    /\ inst.next = Len(Tar)
    /\ AllResolved(inst.works)
    /\ inst' = [SetStatus(inst, "Installed") EXCEPT !.pc = "installed"]
    /\ UNCHANGED <<splitVars, fsVars, runs, cloned, ui>>

\* ruby-install.ts:66: the loop is over and Promise.all is rejected
InstallTarFail ==
    /\ inst.pc = "entries"
    /\ inst.next = Len(Tar)
    /\ SomeRejected(inst.works)
    /\ inst' = Reject(inst, ReadError)
    /\ UNCHANGED <<splitVars, fsVars, runs, cloned, ui>>

\* ruby.worker.ts:199-203: the interpreter is read, its compilation is begun,
\* "Ready" is set, and create awaits the module
CreateCompile ==
    /\ inst.pc = "installed"
    /\ LET read == ReadFileSync(World, BaseFs, RubyBinaryPath)
       IN /\ heap' = read.w.heap
          /\ roots' = read.w.roots
          /\ inst' = IF read.err # None
                     THEN Reject(inst, read.err)
                     ELSE [SetStatus(inst, "Ready") EXCEPT
                             !.pc = "compiling", !.module = read.ret]
    /\ UNCHANGED <<splitVars, runs, cloned, ui>>

\* ruby.worker.ts:203: the compilation has ended
CreateReturn ==
    /\ inst.pc = "compiling"
    /\ inst' = IF ValidModule(inst.module)
               THEN [inst EXCEPT !.pc = "returned"]
               ELSE Reject(inst, CompileError)
    /\ UNCHANGED <<splitVars, fsVars, runs, cloned, ui>>

InitCreate ==
    /\ \E archive \in Archives :
          inst = [archive |-> archive, pc |-> "start", next |-> 0,
                  works |-> [i \in 1..Len(archive.tar) |-> "none"],
                  chunks |-> [i \in 1..Len(archive.tar) |-> << >>],
                  calls |-> << >>, status |-> << >>, error |-> None,
                  module |-> << >>]
    /\ heap = << >>
    /\ roots = [k \in {BaseFs} |-> EmptyMap]
    /\ runs = << >>
    /\ cloned = NotCloned
    /\ ui = NoUi
    /\ content = << >>
    /\ lines = << >>
    /\ idx = 0
    /\ currentFile = Null
    /\ currentSourceLine = 0
    /\ currentContent = << >>
    /\ remaining = << >>
    /\ files = << >>
    /\ codeMap = << >>
    /\ spc = "unused"

NextCreate ==
    \/ CreateCall \/ InstallZip \/ InstallTar \/ InstallEntry
    \/ EntryData \/ EntryEnd \/ EntryError
    \/ InstallTarDone \/ InstallTarFail \/ CreateCompile \/ CreateReturn

SpecCreate == InitCreate /\ [][NextCreate]_vars

(***************************************************************************)
(* SpecUi: the page of index.ts and a Ready worker behind Comlink. The     *)
(* worker is a Comlink proxy with a message port of its own; the callback  *)
(* that runCode passes to worker.run is another Comlink proxy, with a      *)
(* message port of its own for every call. Each port delivers its messages *)
(* in the order they were posted; run does not wait for the promises that  *)
(* its calls of log return, so nothing orders the messages of one port     *)
(* with those of another. ui is:                                           *)
(*   outputPane  the chunks of text in the output element, each with the   *)
(*               call of runCode whose writer put it there                 *)
(*   calls       the calls of runCode, in order: selectedAction; written,  *)
(*               the messages given to outputWriter.write (buffered, for   *)
(*               the LocationHighlightingOutputWriter); program, what the  *)
(*               worker's run does; and pc: "returned" after the error of  *)
(*               the options, "posted" when the call of worker.run is on   *)
(*               its way, "instantiating" at the await of run, "ran" when  *)
(*               run has settled in the worker, "finalized" or "rejected"  *)
(*               when runCode has; and pending, the earlier calls that     *)
(*               had not completed when this one was made                  *)
(*   port        the calls of worker.run posted and not yet taken          *)
(*   log         for every call, the messages of its callback's port that  *)
(*               are posted and not yet delivered                          *)
(*   settled     the results of run posted on the worker's port and not    *)
(*               yet delivered                                             *)
(***************************************************************************)
\* at most MaxCalls calls of runCode
MaxCalls == 2

\* the values of actionSelect
Actions == {"eval", "compile", "syntax", "syntax+prism"}

\* index.ts:664-666: which OutputWriter runCode makes
Highlighting(selectedAction) ==
    selectedAction \in {"compile", "syntax", "syntax+prism"}

\* index.ts:670
OptionsError == "Error parsing options"

\* a run in the worker: the messages it passes to log while wasi.start runs,
\* and how it ends: wasi.start returns ("exit"), wasi.start throws
\* ("fault"), or writeFileSync throws while the files are merged ("merge")
UiPrograms ==
    { [out |-> <<"a", "b">>, end |-> "exit"],
      [out |-> <<"a">>, end |-> "fault"],
      [out |-> << >>, end |-> "merge"] }
NoProgram == [out |-> << >>, end |-> "none"]

\* a chunk of the pane, written by the writer of the call r
Chunk(r, text) == [call |-> r, text |-> text]

RECURSIVE Chunks(_, _)
Chunks(r, texts) ==
    IF texts = << >> THEN << >>
    ELSE <<Chunk(r, Head(texts))>> \o Chunks(r, Tail(texts))

\* index.ts:546-548 and 557-559: outputWriter.write(message) of the call r
OutputWrite(u, r, message) ==
    [u EXCEPT !.calls[r].written = Append(@, message),
              !.outputPane = IF Highlighting(u.calls[r].selectedAction)
                             THEN @
                             ELSE Append(@, Chunk(r, message))]

\* index.ts:550 and 560-589: outputWriter.finalize() of the call r; the
\* spans that the LocationHighlightingOutputWriter appends hold the whole
\* of buffered
Finalize(u, r) ==
    IF Highlighting(u.calls[r].selectedAction)
    THEN [u EXCEPT !.outputPane = Chunks(r, u.calls[r].written)]
    ELSE u

\* runCode has returned or thrown
HasCompleted(call) == call.pc \in {"returned", "finalized", "rejected"}

\* index.ts:660-680: runCode up to its await; run, the button, Ctrl+Enter
\* and runOnChange call it whether or not an earlier call has completed
RunCode ==
    \E selectedAction \in Actions, parses \in BOOLEAN :
        /\ Len(ui.calls) < MaxCalls
        /\ LET r == Len(ui.calls) + 1
               call == [selectedAction |-> selectedAction, written |-> << >>,
                        program |-> NoProgram,
                        pc |-> IF parses THEN "posted" ELSE "returned",
                        pending |-> { q \in 1..Len(ui.calls) :
                                        ~HasCompleted(ui.calls[q]) }]
               cleared == [ui EXCEPT !.outputPane = << >>,
                                     !.calls = Append(@, call),
                                     !.log = Append(@, << >>)]
           IN ui' = IF parses
                    THEN [cleared EXCEPT !.port = Append(@, r)]
                    ELSE OutputWrite(cleared, r, OptionsError)
        /\ UNCHANGED <<splitVars, fsVars, runs, inst, cloned>>

\* ruby.worker.ts:206-243: the worker takes a call of run, up to its await;
\* a writeFileSync that throws rejects the call
WorkerRun ==
    \E program \in UiPrograms :
        /\ ui.port # << >>
        /\ LET r == Head(ui.port)
               taken == [ui EXCEPT !.port = Tail(@), !.calls[r].program = program]
           IN ui' = IF program.end = "merge"
                    THEN [taken EXCEPT !.calls[r].pc = "ran",
                                       !.settled = Append(@, [call |-> r, ok |-> FALSE])]
                    ELSE [taken EXCEPT !.calls[r].pc = "instantiating"]
        /\ UNCHANGED <<splitVars, fsVars, runs, inst, cloned>>

\* ruby.worker.ts:243-250: the instance is there and wasi.start runs to its
\* end: every log posts a message on the port of the callback; a fault is
\* logged too and rethrown; then the result of run is posted
WorkerStart ==
    \E r \in 1..MaxCalls :
        /\ r \in 1..Len(ui.calls)
        /\ ui.calls[r].pc = "instantiating"
        /\ LET program == ui.calls[r].program
               fault == program.end = "fault"
           IN ui' = [ui EXCEPT
                       !.calls[r].pc = "ran",
                       !.log[r] = program.out
                                    \o (IF fault THEN <<SandboxFault>> ELSE << >>),
                       !.settled = Append(@, [call |-> r, ok |-> ~fault])]
        /\ UNCHANGED <<splitVars, fsVars, runs, inst, cloned>>

\* index.ts:680: a message of the callback of the call r is delivered:
\* (text) => outputWriter.write(text)
WriteChunk ==
    \E r \in 1..MaxCalls :
        /\ r \in 1..Len(ui.calls)
        /\ ui.log[r] # << >>
        /\ ui' = OutputWrite([ui EXCEPT !.log[r] = Tail(@)], r, Head(ui.log[r]))
        /\ UNCHANGED <<splitVars, fsVars, runs, inst, cloned>>

\* index.ts:680-681: the result of a run is delivered: the await returns
\* and outputWriter.finalize() is called, or the await throws and runCode
\* is rejected
Completed ==
    /\ ui.settled # << >>
    /\ LET r == Head(ui.settled).call
           delivered == [ui EXCEPT !.settled = Tail(@)]
       IN ui' = IF Head(ui.settled).ok
                THEN [Finalize(delivered, r) EXCEPT !.calls[r].pc = "finalized"]
                ELSE [delivered EXCEPT !.calls[r].pc = "rejected"]
    /\ UNCHANGED <<splitVars, fsVars, runs, inst, cloned>>

InitUi ==
    /\ ui = [outputPane |-> << >>, calls |-> << >>, port |-> << >>,
             log |-> << >>, settled |-> << >>]
    /\ heap = BaseWorld.heap
    /\ roots = BaseWorld.roots
    /\ runs = << >>
    /\ inst = NoInstall
    /\ cloned = NotCloned
    /\ content = << >>
    /\ lines = << >>
    /\ idx = 0
    /\ currentFile = Null
    /\ currentSourceLine = 0
    /\ currentContent = << >>
    /\ remaining = << >>
    /\ files = << >>
    /\ codeMap = << >>
    /\ spc = "unused"

NextUi == RunCode \/ WorkerRun \/ WorkerStart \/ WriteChunk \/ Completed

SpecUi == InitUi /\ [][NextUi]_vars

(***************************************************************************)
(* The filesystem's claims.                                                *)
(***************************************************************************)
\* what readFileSync(path) gives its caller in the world w: the bytes, or
\* the error thrown
ReadResult(w, k, path) ==
    LET r == ReadFileSync(w, k, path) IN [err |-> r.err, ret |-> r.ret]

\* a step that is b.writeFileSync(<<n>>, data) leaves a.readFileSync(<<n>>)
\* and the top-level names of a as they were
C2_Step ==
    FsB \in DOMAIN roots =>
        \A n \in FsNames, data \in FsData :
            LET after == WriteFileSync(World, FsB, <<n>>, data).w
            IN (heap' = after.heap /\ roots' = after.roots) =>
                   /\ ReadResult([heap |-> heap', roots |-> roots'], FsA, <<n>>)
                          = ReadResult(World, FsA, <<n>>)
                   /\ DOMAIN roots'[FsA] = DOMAIN roots[FsA]

\* C2: once b = a.shallowClone() exists, a step that is b.writeFileSync(p,
\* data) for a top-level path p changes neither the result of
\* a.readFileSync(p) (the bytes, or the error) nor the set of top-level names
\* of a, whatever a and b held before.
C2_CloneWriteLeavesSource == [][C2_Step]_vars

\* b has replaced a top-level file of a by its own, and has added a name
C2_Witness ==
    /\ FsB \in DOMAIN roots
    /\ \E n \in DOMAIN roots[FsA] \cap DOMAIN roots[FsB] :
          /\ roots[FsA][n] # roots[FsB][n]
          /\ heap[roots[FsA][n]].kind = "file"
          /\ heap[roots[FsB][n]].kind = "file"
          /\ heap[roots[FsA][n]].data # heap[roots[FsB][n]].data
    /\ \E n \in DOMAIN roots[FsB] : n \notin DOMAIN roots[FsA]

\* the inode at the path parts of the WASIFs k when it is of the given kind;
\* 0 otherwise. Lookup is defined with the harness; the definitions below use
\* their own walk so that they read nothing but the Maps.
RECURSIVE InodeAt(_, _, _)
InodeAt(w, m, parts) ==
    IF parts = << >> \/ Head(parts) \notin DOMAIN m
    THEN 0
    ELSE IF Len(parts) = 1
         THEN m[Head(parts)]
         ELSE IF w.heap[m[Head(parts)]].kind = "dir"
              THEN InodeAt(w, w.heap[m[Head(parts)]].contents, Tail(parts))
              ELSE 0

KindAt(w, k, parts) ==
    LET at == InodeAt(w, w.roots[k], parts)
    IN IF at = 0 THEN "nothing" ELSE w.heap[at].kind

Primed == [heap |-> heap', roots |-> roots']

\* a step that is k.writeFileSync(path, data), for a path that denotes a
\* directory, throws and leaves the directory where it is
C12_Step ==
    \A k \in DOMAIN roots, path \in FsPaths, data \in FsData :
        LET parts == SplitPath(path)
            r == WriteFileSync(World, k, path, data)
        IN (KindAt(World, k, parts) = "dir" /\ Primed = r.w) =>
               /\ r.err # None
               /\ InodeAt(Primed, roots'[k], parts) = InodeAt(World, roots[k], parts)

\* C12 as claimed: writeFileSync(p, data) on a path p that denotes a
\* directory, at the top level or nested, fails with an error and leaves the
\* directory in place; it never replaces a directory with a file.
C12_WriteNeverReplacesDirectory == [][C12_Step]_vars

\* C13: in every state of the filesystem and for every path p, when
\* mkdirSync(p, {recursive: true}) succeeds, a second call right after it
\* succeeds too and leaves every Map and every object as the first call left
\* them (no directory replaced, none emptied).
C13_MkdirRecursiveIdempotent ==
    \A k \in DOMAIN roots, path \in FsPaths :
        LET first == MkdirSync(World, k, path, TRUE)
            second == MkdirSync(first.w, k, path, TRUE)
        IN first.err = None =>
               /\ second.err = None
               /\ second.w = first.w

\* a directory made after a file was written into its parent: mkdirSync of the
\* parent, recursive, finds a directory that has contents
C13_Witness ==
    \E k \in DOMAIN roots, d \in FsNames :
        /\ KindAt(World, k, <<d>>) = "dir"
        /\ \E n \in FsNames, m \in FsNames :
              /\ KindAt(World, k, <<d, n>>) = "file"
              /\ KindAt(World, k, <<d, m>>) = "dir"
              /\ InodeAt(World, roots[k], <<d, n>>) < InodeAt(World, roots[k], <<d, m>>)

\* the calls that create an entry named n in the directory named d of k
C19_Creations(k, d, n) ==
    { WriteFileSync(World, k, <<d, n>>, data).w : data \in FsData }
        \cup { MkdirSync(World, k, <<d, n>>, recursive).w : recursive \in BOOLEAN }

\* the directory named d at the top level of k is the one a had under that
\* name when shallowClone was called
C19_FromCloneTime(k, d) ==
    /\ d \in DOMAIN cloned.root
    /\ heap[cloned.root[d]].kind = "dir"
    /\ d \in DOMAIN roots[k]
    /\ roots[k][d] = cloned.root[d]

C19_VisibleThroughBoth(d, n) ==
    /\ InodeAt(Primed, roots'[FsA], <<d, n>>) # 0
    /\ InodeAt(Primed, roots'[FsA], <<d, n>>) = InodeAt(Primed, roots'[FsB], <<d, n>>)

C19_StepAsClaimed ==
    FsB \in DOMAIN roots =>
        \A k \in {FsA, FsB}, d \in FsNames, n \in FsNames :
            (/\ C19_FromCloneTime(k, d)
             /\ Primed \in C19_Creations(k, d, n)
             /\ Len(heap') > Len(heap))
                => C19_VisibleThroughBoth(d, n)

\* C19 as claimed: after b = a.shallowClone(), a step in which a or b creates
\* a file or a directory in a directory that was a top-level entry of a at
\* clone time makes the new entry visible through both a and b.
C19_NestedCreationVisibleInBoth == [][C19_StepAsClaimed]_vars

C19_StepAsAmended ==
    FsB \in DOMAIN roots =>
        \A k \in {FsA, FsB}, d \in FsNames, n \in FsNames :
            (/\ C19_FromCloneTime(FsA, d)
             /\ C19_FromCloneTime(FsB, d)
             /\ Primed \in C19_Creations(k, d, n)
             /\ Len(heap') > Len(heap))
                => C19_VisibleThroughBoth(d, n)

\* C19 as amended: the same, for a directory that both a and b still have
\* under its top-level name (neither has replaced its top-level entry since).
C19_NestedCreationVisibleWhileShared == [][C19_StepAsAmended]_vars

\* a and b still share a directory of clone time, and it holds an object
\* created after the clone
C19_Witness ==
    /\ FsB \in DOMAIN roots
    /\ \E d \in FsNames, n \in FsNames :
          /\ C19_FromCloneTime(FsA, d)
          /\ C19_FromCloneTime(FsB, d)
          /\ InodeAt(World, roots[FsA], <<d, n>>) > cloned.size
          /\ InodeAt(World, roots[FsB], <<d, n>>) = InodeAt(World, roots[FsA], <<d, n>>)

\* C20 as claimed: mkdirSync fails with ENOTDIR when a segment before the last
\* is not a directory, with EEXIST when the last segment is a file, these are
\* two kinds of error, and it succeeds when the last segment is a directory.
C20_MkdirErrorKinds ==
    \A k \in DOMAIN roots, path \in FsPaths, recursive \in BOOLEAN :
        LET parts == SplitPath(path)
            r == MkdirSync(World, k, path, recursive)
            KindOf(n) == KindAt(World, k, SubSeq(parts, 1, n))
        IN /\ (\E n \in 1..(Len(parts) - 1) : KindOf(n) = "file") => r.err = ENOTDIR
           /\ KindOf(Len(parts)) = "file" => r.err = EEXIST
           /\ ENOTDIR # EEXIST
           /\ KindOf(Len(parts)) = "dir" => r.err = None

\* C21 as claimed: mkdirSync(path) without recursive fails with ENOENT
\* exactly when a segment before the last is missing; and when every segment
\* before the last is a directory and the last is absent, it succeeds and
\* path is a directory afterwards.
C21_MkdirCreatesLastSegment ==
    \A k \in DOMAIN roots, path \in FsPaths :
        LET parts == SplitPath(path)
            r == MkdirSync(World, k, path, FALSE)
            KindOf(n) == KindAt(World, k, SubSeq(parts, 1, n))
            ParentsAreDirectories == \A n \in 1..(Len(parts) - 1) : KindOf(n) = "dir"
            FirstMissingBeforeLast ==
                \E n \in 1..(Len(parts) - 1) :
                    /\ KindOf(n) = "nothing"
                    /\ \A m \in 1..(n - 1) : KindOf(m) = "dir"
        IN /\ r.err = ENOENT <=> FirstMissingBeforeLast
           /\ (ParentsAreDirectories /\ KindOf(Len(parts)) = "nothing") =>
                  /\ r.err = None
                  /\ KindAt(r.w, k, parts) = "dir"

\* C22 as claimed: writeFileSync(p, data) succeeds when a file is at p, at
\* whatever depth, and whenever it succeeds (nothing was at p and the parents
\* were made, or the file at p was replaced) readFileSync(p) right after it
\* returns data.
C22_WriteThenReadReturnsData ==
    \A k \in DOMAIN roots, path \in FsPaths, data \in FsData :
        LET parts == SplitPath(path)
            r == WriteFileSync(World, k, path, data)
        IN /\ KindAt(World, k, parts) = "file" => r.err = None
           /\ r.err = None => ReadResult(r.w, k, path) = [err |-> None, ret |-> data]

\* the first n segments of parts are directories, and the next one is of the
\* given kind
C23_FirstNot(k, parts, n, kind) ==
    /\ \A m \in 1..(n - 1) : KindAt(World, k, SubSeq(parts, 1, m)) = "dir"
    /\ KindAt(World, k, SubSeq(parts, 1, n)) = kind

\* the errors of readFileSync(path): ENOENT when the first segment that is no
\* directory is missing, ENOTDIR when it is a file and not the last segment
C23_ReadErrors(k, path) ==
    LET parts == SplitPath(path)
        r == ReadFileSync(World, k, path)
    IN /\ (\E n \in 1..Len(parts) : C23_FirstNot(k, parts, n, "nothing"))
              => r.err = ENOENT
       /\ (\E n \in 1..(Len(parts) - 1) : C23_FirstNot(k, parts, n, "file"))
              => r.err = ENOTDIR

\* C23 as claimed: readFileSync(path) fails with ENOENT when a segment is
\* missing, with ENOTDIR when a segment before the last is a file, and in
\* every other case (all the segments exist and those before the last are
\* directories) it returns bytes, those of the file at path.
C23_ReadErrorsElseBytes ==
    \A k \in DOMAIN roots, path \in FsPaths :
        LET parts == SplitPath(path)
            r == ReadFileSync(World, k, path)
        IN /\ C23_ReadErrors(k, path)
           /\ (/\ \A n \in 1..(Len(parts) - 1) : C23_FirstNot(k, parts, n, "dir")
               /\ KindAt(World, k, parts) # "nothing")
                  => /\ r.err = None
                     /\ r.ret \in FsData
                     /\ KindAt(World, k, parts) = "file"
                     /\ r.ret = heap[InodeAt(World, roots[k], parts)].data

\* C23 as amended: the same errors, and the bytes of the file at path when
\* path denotes a file.
C23_ReadErrorsElseBytesOfFile ==
    \A k \in DOMAIN roots, path \in FsPaths :
        LET parts == SplitPath(path)
            r == ReadFileSync(World, k, path)
        IN /\ C23_ReadErrors(k, path)
           /\ KindAt(World, k, parts) = "file"
                  => /\ r.err = None
                     /\ r.ret \in FsData
                     /\ r.ret = heap[InodeAt(World, roots[k], parts)].data

\* one filesystem in which readFileSync meets its three cases: a file in a
\* directory, a name missing from that directory, and a file where a
\* directory is needed
C23_Witness ==
    \E k \in DOMAIN roots, d \in FsNames, f \in FsNames, n \in FsNames :
        /\ KindAt(World, k, <<d, f>>) = "file"
        /\ KindAt(World, k, <<d, n>>) = "nothing"
        /\ KindAt(World, k, <<f>>) = "file"
        /\ ReadFileSync(World, k, <<d, f>>).ret \in FsData
        /\ ReadFileSync(World, k, <<d, n>>).err = ENOENT
        /\ ReadFileSync(World, k, <<f, n>>).err = ENOTDIR

\* C24 as claimed: readFileSync(path), whether it returns or throws, leaves
\* every Map and every object of the filesystem as they were; no directory
\* is made for a missing parent.
C24_ReadChangesNothing ==
    \A k \in DOMAIN roots, path \in FsPaths :
        LET r == ReadFileSync(World, k, path)
        IN /\ r.w = World
           /\ \A parts \in FsPaths :
                 InodeAt(r.w, r.w.roots[k], parts) = InodeAt(World, roots[k], parts)

(***************************************************************************)
(* The claims about create and the installer.                              *)
(***************************************************************************)
RECURSIVE TreeOf(_, _)
\* the tree below the Map m: names, kinds and file contents
TreeOf(w, m) ==
    [n \in DOMAIN m |->
        IF w.heap[m[n]].kind = "dir"
        THEN [kind |-> "dir", tree |-> TreeOf(w, w.heap[m[n]].contents)]
        ELSE [kind |-> "file", data |-> w.heap[m[n]].data]]

\* setStatus has been called with message
Emitted(message) == \E j \in 1..Len(inst.status) : inst.status[j] = message

\* fs has been called with op(path, data)
Called(op, path, data) ==
    \E j \in 1..Len(inst.calls) :
        inst.calls[j] = [op |-> op, path |-> path, data |-> data]

\* C16 as claimed: a create that rejects, because the install, the read of
\* the interpreter or its compilation failed, has never set the status
\* "Ready"; and "Ready" is set only in a create whose install has succeeded.
C16_NoPartialReady ==
    /\ inst.pc = "rejected" => ~Emitted("Ready")
    /\ Emitted("Ready") => Emitted("Installed")

IsPrefix(p, q) == Len(p) <= Len(q) /\ SubSeq(q, 1, Len(p)) = p

\* another entry of the tar writes at, above or below the path of the entry i
Overwritten(i) ==
    \E j \in 1..Len(Tar) :
        /\ j # i
        /\ \/ Tar[j].type = "file" /\ IsPrefix(Tar[j].path, Tar[i].path)
           \/ IsPrefix(Tar[i].path, Tar[j].path)

C25_Unknown == { i \in 1..Len(Tar) : Tar[i].type \notin {"file", "directory"} }

\* C25: for a tar with an entry that is neither file nor directory,
\* "Installed" is never set, installTar never resolves and create never
\* returns a worker; the loop takes no entry after the first such entry, and
\* once it has taken that entry create is rejected with the error thrown for
\* it, whatever the entries before it were and whether their reads have
\* ended or not.
C25_UnknownEntryRejects ==
    C25_Unknown # {} =>
        LET first == CHOOSE i \in C25_Unknown : \A j \in C25_Unknown : i <= j
        IN /\ ~Emitted("Installed")
           /\ ~Emitted("Ready")
           /\ inst.pc \notin {"installed", "compiling", "returned"}
           /\ inst.next <= first
           /\ inst.next = first =>
                  /\ inst.pc = "rejected"
                  /\ inst.error = UnknownEntry

\* create is rejected for the third entry: the directory of the first is
\* made, and the read of the second, a file, has not ended
C25_Witness ==
    /\ inst.pc = "rejected"
    /\ inst.error = UnknownEntry
    /\ inst.next = 3
    /\ \E i \in 1..2, j \in 1..2 :
          /\ Tar[i].type = "directory"
          /\ Called("mkdirSync", Tar[i].path, << >>)
          /\ Tar[j].type = "file"
          /\ inst.works[j] = "pending"

\* no path occurs twice in the tar, and no path of a file entry is the path
\* of a directory: neither of a directory entry nor of a directory above
\* another entry
C26_NoConflict(tar) ==
    \A i \in 1..Len(tar), j \in 1..Len(tar) :
        i # j =>
            /\ tar[i].path # tar[j].path
            /\ tar[i].type = "file" => ~IsPrefix(tar[i].path, tar[j].path)

RECURSIVE C26_TreeOfEntries(_, _)
\* the tree that a set of entries describes below the path prefix: a file
\* with its whole content for a file entry, a directory for a directory
\* entry and for every path above an entry
C26_TreeOfEntries(entries, prefix) ==
    LET below == { e \in entries :
                     IsPrefix(prefix, e.path) /\ Len(e.path) > Len(prefix) }
        names == { e.path[Len(prefix) + 1] : e \in below }
    IN [n \in names |->
          LET p == Append(prefix, n)
              here == { e \in below : e.path = p /\ e.type = "file" }
          IN IF here # {}
             THEN [kind |-> "file", data |-> Flatten((CHOOSE e \in here : TRUE).data)]
             ELSE [kind |-> "dir", tree |-> C26_TreeOfEntries(entries, p)]]

\* C26: when installTar has resolved for a tar in which no path occurs
\* twice and no file's path is a directory's, the tree of the filesystem is
\* the tree that the set of its entries describes: it is the same for every
\* order of the entries in the tar and every order in which the reads of the
\* files end.
C26_TreeIndependentOfOrder ==
    (inst.pc = "installed" /\ C26_NoConflict(Tar)) =>
        TreeOf(World, roots[BaseFs])
            = C26_TreeOfEntries({ Tar[i] : i \in 1..Len(Tar) }, << >>)

\* the position of the call writeFileSync(path, ...) among the calls of fs
C26_WrittenAt(path) ==
    CHOOSE j \in 1..Len(inst.calls) :
        inst.calls[j].op = "writeFileSync" /\ inst.calls[j].path = path

\* installed: a file came before the directory it is in, and two files were
\* written in the order opposite to that of their entries
C26_Witness ==
    /\ inst.pc = "installed"
    /\ C26_NoConflict(Tar)
    /\ \E i \in 1..Len(Tar), j \in 1..Len(Tar) :
          /\ i < j
          /\ Tar[i].type = "file"
          /\ Tar[j].type = "directory"
          /\ IsPrefix(Tar[j].path, Tar[i].path)
    /\ \E i \in 1..Len(Tar), j \in 1..Len(Tar) :
          /\ i < j
          /\ Tar[i].type = "file"
          /\ Tar[j].type = "file"
          /\ C26_WrittenAt(Tar[j].path) < C26_WrittenAt(Tar[i].path)

(***************************************************************************)
(* The harness's claims.                                                   *)
(***************************************************************************)
RunIds == 1..Len(runs)
Code(r) == runs[r].request.code
\* the paths of the request of r, and those its merge has written
CodePaths(r) == { SplitPath(Code(r)[n].path) : n \in 1..Len(Code(r)) }
WrittenPaths(r) == { SplitPath(Code(r)[n].path) : n \in 1..runs[r].merged }
\* the paths the program of r has written so far
ProgramWrote(r) ==
    { runs[r].program[i].path :
        i \in { j \in 1..runs[r].pos : runs[r].program[j].op = "write" } }
\* the merge of r went through: its codeFs is the filesystem of a program
Exposed(r) == runs[r].thrown \in {None, SandboxFault}
Present(w, k, parts) == Lookup(w, w.roots[k], parts) # 0
BaseRoot == BaseWorld.roots[BaseFs]
BaseInodes == 1..Len(BaseWorld.heap)
BaseDirectory(n) ==
    n \in DOMAIN BaseRoot /\ BaseWorld.heap[BaseRoot[n]].kind = "dir"
\* a top-level path, or one below a top-level directory that the
\* installation does not have
OwnPath(parts) == Len(parts) = 1 \/ ~BaseDirectory(Head(parts))

\* C1 as claimed: a file that the request of A has written, at whatever path,
\* is in the filesystem of another run B only if the request of B or the
\* installation has it (or the program of B wrote it itself).
C1_NoRunSeesAnothersFiles ==
    \A A \in RunIds, B \in RunIds :
        (A # B /\ Exposed(B)) =>
            \A p \in WrittenPaths(A) :
                Present(World, B, p) =>
                    \/ p \in CodePaths(B)
                    \/ Present(BaseWorld, BaseFs, p)
                    \/ p \in ProgramWrote(B)

\* C1 as amended: the same for the files written at a top-level path or
\* below a top-level directory that the installation does not have.
C1_NoRunSeesAnothersOwnPaths ==
    \A A \in RunIds, B \in RunIds :
        (A # B /\ Exposed(B)) =>
            \A p \in WrittenPaths(A) :
                (OwnPath(p) /\ Present(World, B, p)) =>
                    \/ p \in CodePaths(B)
                    \/ Present(BaseWorld, BaseFs, p)
                    \/ p \in ProgramWrote(B)

\* two overlapping runs: B is inside wasi.start while A, whose request wrote
\* a top-level file and a file in a new directory, awaits its instance
C1_Witness ==
    \E A \in RunIds, B \in RunIds :
        /\ A # B
        /\ runs[A].pc = "instantiating"
        /\ runs[B].pc = "started"
        /\ \E p \in WrittenPaths(A) : Len(p) = 1 /\ ~Present(World, B, p)
        /\ \E p \in WrittenPaths(A) : Len(p) = 2 /\ OwnPath(p) /\ ~Present(World, B, p)

C8_Known == {"eval", "compile", "syntax", "syntax+prism"}

\* after every step, a call with an unknown action is rejected, has no codeFs,
\* no arguments for WASI and no output; the step that makes the call leaves
\* the inodes and the root Maps as they were
C8_Step ==
    \A r \in 1..Len(runs') :
        runs'[r].request.action \notin C8_Known =>
            /\ runs'[r].pc = "rejected"
            /\ runs'[r].thrown = UnknownAction
            /\ runs'[r].out = << >>
            /\ runs'[r].argv = << >>
            /\ r \notin DOMAIN roots'
            /\ r \notin RunIds => (heap' = heap /\ roots' = roots)

\* C8: a call with an unknown action is rejected with 'Unknown action' in the
\* step that makes it, which clones nothing, writes nothing, instantiates
\* nothing and passes nothing to log; and that stays so.
C8_UnknownActionRejectedFirst == [][C8_Step]_vars

\* a call with an unknown action, made after another run wrote its files
C8_Witness ==
    \E r \in RunIds :
        /\ runs[r].request.action \notin C8_Known
        /\ Len(runs[r].request.code) > 1
        /\ \E q \in RunIds : q < r /\ runs[q].merged > 0

Last(seq) == seq[Len(seq)]

\* C9 as claimed: once the fault thrown out of wasi.start has been passed to
\* log, the promise of run is resolved, not rejected.
C9_FaultIsNotPropagated ==
    \A r \in RunIds :
        (runs[r].out # << >> /\ Last(runs[r].out) = SandboxFault) =>
            runs[r].pc = "resolved"

\* the installation merged with the files of the request of r
MergedOnInstallation(r) ==
    MergeFiles(ShallowClone(BaseWorld, BaseFs, r), r, Code(r), 1).w

RECURSIVE OutputOf(_, _)
\* what the operations ops write to fd 1 and fd 2, one chunk per write, when
\* their reads of files find seen
OutputOf(ops, seen) ==
    IF ops = << >> THEN << >>
    ELSE IF Head(ops).op = "fd_write" /\ Head(ops).fd \in {1, 2}
         THEN <<DecodeBuffers(Head(ops).iovs)>> \o OutputOf(Tail(ops), seen)
    ELSE IF Head(ops).op = "cat"
         THEN (IF Head(seen).found
               THEN <<DecodeBuffers(<<Head(seen).data>>)>> ELSE << >>)
                  \o OutputOf(Tail(ops), Tail(seen))
    ELSE OutputOf(Tail(ops), seen)

\* the root of the codeFs of r: what the request of r wrote at the top level
\* is its own new file, a directory it had to create is its own, and every
\* other name is bound to the inode the installation binds it to
C10_OwnRoot(r) ==
    /\ DOMAIN BaseRoot \subseteq DOMAIN roots[r]
    /\ \A n \in DOMAIN roots[r] :
          IF <<n>> \in CodePaths(r)
          THEN /\ roots[r][n] \notin BaseInodes
               /\ heap[roots[r][n]].kind = "file"
               /\ \E i \in 1..Len(Code(r)) :
                     /\ SplitPath(Code(r)[i].path) = <<n>>
                     /\ heap[roots[r][n]].data = Encode(Code(r)[i].text)
          ELSE IF n \in DOMAIN BaseRoot
               THEN roots[r][n] = BaseRoot[n]
               ELSE /\ \E p \in CodePaths(r) : Head(p) = n
                    /\ roots[r][n] \notin BaseInodes
                    /\ heap[roots[r][n]].kind = "dir"

RECURSIVE WholeWrites(_, _)
\* one chunk per write to fd 1 or fd 2 among ops, each the text that the
\* bytes of that write, all its buffers together, decode to
WholeWrites(ops, seen) ==
    IF ops = << >> THEN << >>
    ELSE IF Head(ops).op = "fd_write" /\ Head(ops).fd \in {1, 2}
         THEN <<Decode(Flatten(Head(ops).iovs))>> \o WholeWrites(Tail(ops), seen)
    ELSE IF Head(ops).op = "cat"
         THEN (IF Head(seen).found THEN <<Decode(Head(seen).data)>> ELSE << >>)
                  \o WholeWrites(Tail(ops), Tail(seen))
    ELSE WholeWrites(Tail(ops), seen)

\* the operations the program of r has done
Done(r) == SubSeq(runs[r].program, 1, runs[r].pos)

\* C11 as claimed: while a run is inside wasi.start and once it has returned,
\* log has been called once for each write to fd 1 or fd 2 that the program
\* has made so far, in the order of the writes, each call with the text that
\* the bytes of that one write decode to.
C11_EachWriteDeliveredDecoded ==
    \A r \in RunIds :
        runs[r].pc \in {"started", "resolved"} =>
            runs[r].out = WholeWrites(Done(r), runs[r].seen)

\* what holds of the code: one call of log per write so far, in order, each
\* with the texts that the buffers of the write decode to one by one
C11_EachWriteDeliveredPerBuffer ==
    \A r \in RunIds :
        runs[r].pc \in {"started", "resolved"} =>
            runs[r].out = OutputOf(Done(r), runs[r].seen)

\* the run A has not settled
Unsettled(A) == runs[A].pc \in {"instantiating", "started"}

\* C14 as claimed: a call of run is made only when every earlier call on the
\* worker has run to completion (the calls are numbered in the order they
\* are made).
C14_RunsDoNotInterleave ==
    \A A \in RunIds, B \in RunIds : A < B => ~Unsettled(A)

\* the files the program reads are the run's own: at a top-level path or below
\* a top-level directory that the installation does not have, and not files
\* of the installation
ReadsOwnFiles(program) ==
    \A i \in 1..Len(program) :
        program[i].op = "cat" =>
            /\ OwnPath(program[i].path)
            /\ ~Present(BaseWorld, BaseFs, program[i].path)

SameRun(A, B) ==
    /\ runs[A].request = runs[B].request
    /\ runs[A].argv = runs[B].argv
    /\ runs[A].program = runs[B].program
    /\ runs[A].pc = "resolved"
    /\ runs[B].pc = "resolved"

OwnRequest(r) == \A p \in CodePaths(r) : OwnPath(p)

C18_TopLevelMutationsStayInTheRun ==
    /\ roots[BaseFs] = BaseRoot
    /\ \A A \in DOMAIN roots, B \in DOMAIN roots :
          (A # B /\ A # BaseFs) =>
              \A n \in DOMAIN roots[A] :
                  roots[A][n] \notin BaseInodes =>
                      (n \notin DOMAIN roots[B] \/ roots[B][n] # roots[A][n])

\* a run has replaced a top-level file of the installation by its merge and
\* added a top-level file by its program; another run has neither
C18_Witness ==
    \E A \in RunIds, B \in RunIds :
        /\ A # B
        /\ runs[A].pc = "resolved"
        /\ <<"t.rb">> \in ProgramWrote(A)
        /\ <<"README">> \in WrittenPaths(A)
        /\ roots[A]["README"] # BaseRoot["README"]
        /\ B \in DOMAIN roots
        /\ "t.rb" \notin DOMAIN roots[B]
        /\ roots[B]["README"] = BaseRoot["README"]

(***************************************************************************)
(* The page's claims.                                                      *)
(***************************************************************************)
\* the pane shows every message that the writer of the call r was given
Shown(r) ==
    \A j \in 1..Len(ui.calls[r].written) :
        \E i \in 1..Len(ui.outputPane) :
            ui.outputPane[i] = Chunk(r, ui.calls[r].written[j])

\* C27 as claimed: when the latest call of runCode has ended with a fault of
\* its run, the pane shows the chunks that were delivered for it, whatever
\* the action, those with a buffering writer included.
C27_FaultShowsDeliveredOutput ==
    \A r \in 1..Len(ui.calls) :
        (/\ r = Len(ui.calls)
         /\ ui.calls[r].pc = "rejected"
         /\ ui.calls[r].program.end = "fault")
            => Shown(r)

\* C28 as claimed: when the page has observed the completion of a run (and
\* has called finalize if the run resolved), every chunk that the run sent
\* through the callback has been written to the writer: none is still to
\* arrive.
C28_CompletionAfterEveryChunk ==
    \A r \in 1..Len(ui.calls) :
        ui.calls[r].pc \in {"finalized", "rejected"} =>
            /\ ui.log[r] = << >>
            /\ ui.calls[r].program.end # "merge" =>
                   SubSeq(ui.calls[r].written, 1, Len(ui.calls[r].program.out))
                       = ui.calls[r].program.out

\* C29 as claimed: from the moment a second call of runCode is made while
\* the first has not completed, and goes on to its run, the pane holds no
\* chunk of the first; and
\* when both have completed, their runs resolved and every chunk delivered,
\* the pane holds the output of the second, no more and no less.
C29_PaneShowsSecondRunOnly ==
    \A A \in 1..Len(ui.calls), B \in 1..Len(ui.calls) :
        (/\ B = Len(ui.calls)
         /\ A \in ui.calls[B].pending
         /\ ui.calls[B].pc # "returned") =>
            /\ \A i \in 1..Len(ui.outputPane) : ui.outputPane[i].call # A
            /\ (/\ ui.calls[A].pc = "finalized"
                /\ ui.calls[B].pc = "finalized"
                /\ ui.log[A] = << >>
                /\ ui.log[B] = << >>)
                   => ui.outputPane = Chunks(B, ui.calls[B].written)

(***************************************************************************)
(* The splitter's claims. The lines of the buffer are numbered from 0, as  *)
(* in the code; a marker line is a line the code's pattern matches.        *)
(***************************************************************************)
OrigLines == SplitNL(content)
LineAt(i) == OrigLines[i + 1]
LineNos == 0..(Len(OrigLines) - 1)
IsMarkerAt(i) == MatchMarker(LineAt(i)) # Null
Markers == { i \in LineNos : IsMarkerAt(i) }
MarkerNames == { MatchMarker(LineAt(i)) : i \in Markers }
\* the line after the section that the marker at line i opens
SectionEnd(i) ==
    IF \E j \in Markers : j > i
    THEN CHOOSE j \in Markers : j > i /\ \A k \in Markers : k > i => j <= k
    ELSE Len(OrigLines)
\* the lines from..(to - 1), each followed by a newline
LinesText(from, to) ==
    Flatten([k \in 1..(to - from) |-> LineAt(from + k - 1) \o <<NL>>])
SectionText(i) == LinesText(i + 1, SectionEnd(i))
LastMarkerOf(f) ==
    CHOOSE i \in Markers :
        /\ MatchMarker(LineAt(i)) = f
        /\ \A j \in Markers : MatchMarker(LineAt(j)) = f => j <= i
FirstMarker == CHOOSE i \in Markers : \A j \in Markers : i <= j
SplitDone == spc \in {"done", "mapped"}

\* C3: a buffer without a marker line comes back whole: remaining is the
\* text followed by exactly one newline, and files is empty.
C3_NoMarkerRoundTrip ==
    (SplitDone /\ Markers = {}) =>
        /\ remaining = content \o <<NL>>
        /\ DOMAIN files = {}

C3_Witness ==
    /\ spc = "done"
    /\ Markers = {}
    /\ Len(content) > 1
    /\ content[Len(content)] = NL

\* C4: the last marker of each name, at line i, yields files[name] with
\* sourceLine = i and as content the lines after line i up to the next marker
\* or the end of the input, each followed by a newline; no section's content
\* holds a marker line.
C4_SectionContent ==
    SplitDone =>
        /\ \A i \in Markers :
              LET f == MatchMarker(LineAt(i))
              IN i = LastMarkerOf(f) =>
                    /\ f \in DOMAIN files
                    /\ files[f].sourceLine = i
                    /\ files[f].content = SectionText(i)
        /\ \A f \in DOMAIN files :
              files[f].content # << >> =>
                  LET ls == SplitNL(files[f].content)
                  IN \A k \in 1..Len(ls) : MatchMarker(ls[k]) = Null

C4_Witness ==
    /\ spc = "done"
    /\ Cardinality(Markers) >= 2
    /\ \E i \in Markers : i > 0 /\ SectionEnd(i) > i + 1 /\ SectionEnd(i) < Len(OrigLines)

\* C5: with at least one marker line, remaining is exactly the lines before
\* the first marker, each followed by a newline.
C5_RemainingBeforeFirstMarker ==
    (SplitDone /\ Markers # {}) => remaining = LinesText(0, FirstMarker)

C5_Witness ==
    /\ spc = "done"
    /\ Cardinality(Markers) >= 2
    /\ FirstMarker >= 1
    /\ SectionEnd(FirstMarker) > FirstMarker + 1

\* C6: a filename named by several markers has one entry, the last section's
\* content under the last marker's line; the result holds nothing else than
\* the lines before the first marker and the last section of each name.
C6_LastWriteWins ==
    SplitDone =>
        \A f \in MarkerNames :
            Cardinality({ i \in Markers : MatchMarker(LineAt(i)) = f }) > 1 =>
                /\ f \in DOMAIN files
                /\ files[f] = [content |-> SectionText(LastMarkerOf(f)),
                               sourceLine |-> LastMarkerOf(f)]
                /\ DOMAIN files = MarkerNames
                /\ remaining = LinesText(0, FirstMarker)
                /\ \A g \in DOMAIN files :
                       files[g].content = SectionText(LastMarkerOf(g))

C6_Witness ==
    /\ spc = "done"
    /\ \E i, j \in Markers :
          /\ i < j
          /\ MatchMarker(LineAt(i)) = MatchMarker(LineAt(j))
          /\ SectionText(i) # SectionText(j)
          /\ SectionText(i) # << >>

\* C7: in the file runCode hands to the interpreter for a section, every line
\* of the section has the 1-indexed line number it has in the editor buffer.
C7_LinesAligned ==
    spc = "mapped" =>
        \A f \in DOMAIN files :
            LET i == files[f].sourceLine
                handed == SplitNL(codeMap[f])
            IN \A j \in (i + 1)..(SectionEnd(i) - 1) :
                   \* line j, numbered from 0, is line number j + 1
                   /\ j + 1 <= Len(handed)
                   /\ handed[j + 1] = OrigLines[j + 1]

C7_Witness ==
    /\ spc = "mapped"
    /\ \E f \in DOMAIN files :
          /\ files[f].sourceLine >= 1
          /\ SectionEnd(files[f].sourceLine) > files[f].sourceLine + 1
          /\ LineAt(files[f].sourceLine + 1) # << >>

\* C30 as claimed: in the request that runCode builds, for every editor
\* buffer, the file at the main path holds the remaining part that splitFile
\* returned, also when a section is named like the main file.
C30_MainFileIsRemaining ==
    spc = "mapped" =>
        /\ MainFile \in DOMAIN codeMap
        /\ codeMap[MainFile] = remaining

====
